---- MODULE Spec2Model ----
(***************************************************************************)
(* Vehicle platooning protocol core: the congestion window controller of   *)
(* vehiclePlatoon.py, the heartbeat error codec and the vehicle tick loop  *)
(* of vpemer.py, and the leader assignment of compare.py.                  *)
(*                                                                         *)
(* Conventions.  A binary_message (a Python str of '0'/'1') is a sequence  *)
(* over {0,1}; index i of Python is index i+1 here.  A heartbeat dict is a *)
(* function from its keys, so that a missing key is a key outside its      *)
(* DOMAIN.  Python None is PyNone or NoLeader.  Speeds are floats in the    *)
(* source; every arithmetic step applied to them (+, -, min, max) is exact *)
(* on the sampled values, so they are integers here.  vehiclePlatoon.py    *)
(* advances position by speed/3600 per tick: its position is counted in    *)
(* units of 1/3600 km, so that the step is position + speed.               *)
(***************************************************************************)
EXTENDS Integers, Sequences, FiniteSets, TLC

VARIABLES
    vehicles,          \* ids of the Vehicle objects constructed so far
    running,           \* Vehicle.running
    cwnd,              \* Vehicle.cwnd
    ssthresh,          \* Vehicle.ssthresh
    max_window_size,   \* Vehicle.max_window_size
    data_packets,      \* Vehicle.data_packets (vehiclePlatoon.py)
    position,          \* Vehicle.position
    speed,             \* Vehicle.speed
    synchronized,      \* Vehicle.synchronized
    obstacle_detected, \* Vehicle.obstacle_detected
    direction,         \* Vehicle.direction
    leader,            \* Vehicle.leader, a vehicle id or NoLeader
    error_data,        \* error_data[kind], one counter per constructed vehicle
    age_factor,        \* AgedPriorityQueue.age_factor
    heartbeat_queue,   \* the heartbeat queue shared by sender and vehicles:
                       \* the heap list of (priority, heartbeat) in vpemer.py
    congestion_queue,  \* the feedback queue, oldest first
    metrics_len,       \* len(speed_data[v]) = len(position_data[v]) = ...
    pc,                \* where each vehicle thread is in run()
    ticks,             \* loop iterations started so far, all vehicles together
    sender,            \* the HeartbeatSender thread: running flag, place, and
                       \* the number of heartbeats put so far
    main,              \* the driver thread: place and loop index
    local,             \* each vehicle thread's local values that live across
                       \* a point where another thread can run
    last,              \* the operation that ran last, with its inputs and
                       \* the values it read (history, not program state)
    hist               \* what has happened so far that later states no longer
                       \* show (history, not program state)

vars == <<vehicles, running, cwnd, ssthresh, max_window_size, data_packets,
          position, speed, synchronized, obstacle_detected, direction,
          leader, error_data, age_factor, heartbeat_queue, congestion_queue,
          metrics_len, pc, ticks, sender, main, local, last, hist>>

---------------------------------------------------------------------------
(* Bounds of the model.                                                    *)

\* vehicle ids are 0 .. NumVehicles-1
NumVehicles == 2
\* largest max_window_size a Vehicle is constructed with
MaxWindow == 5
\* largest number of pending data units handed to the encoder
MaxData == 1
\* largest number of values kept on the feedback queue
MaxFeedback == 5

---------------------------------------------------------------------------
(* Program constants.                                                      *)

\* def __init__(..., max_window_size=5)
DEFAULT_MAX_WINDOW_SIZE == 5
\* np.random.randint(0, 10, ...): coefficients are below this
COEFF_HIGH == 10

\* vpemer.py: SINGLE_BIT = 1, DOUBLE_BIT = 2, BURST = 3, MAX_SPEED = 120
SINGLE_BIT == 1
DOUBLE_BIT == 2
BURST == 3
MAX_SPEED == 120
\* Python None as the error_type of an unlabelled heartbeat
PyNone == 0
\* Python None as Vehicle.leader
NoLeader == -1

ErrorKinds == {SINGLE_BIT, DOUBLE_BIT, BURST}

\* a thread outside assign_leader and outside a speed update holds nothing
NoLocals == [candidates |-> {}, speed |-> 0]

Ids == 0 .. (NumVehicles - 1)

\* nothing has happened yet: no leader stored, no heartbeat handed out
NoHistory ==
    [leader_speed |-> [v \in Ids |-> 0], received |-> 0,
     puts |-> 0, enqueued |-> <<>>, flagged |-> [v \in Ids |-> {}]]

Min2(a, b) == IF a <= b THEN a ELSE b
Max2(a, b) == IF a >= b THEN a ELSE b

RECURSIVE SeqSum(_)
SeqSum(s) == IF s = <<>> THEN 0 ELSE Head(s) + SeqSum(Tail(s))

---------------------------------------------------------------------------
(* vehiclePlatoon.py: the congestion controller.                           *)

\* The coefficient values the model draws: both ends of randint(0, 10).
CoeffSamples == {0, COEFF_HIGH - 1}

\* An encoder that makes num_packets packets even of no data.
rlnc_encode_padded(packets, num_packets, coeffs) ==
    [j \in 1 .. num_packets |->
        SeqSum([i \in 1 .. Len(packets) |-> coeffs[j][i] * packets[i]])]

\* Vehicle.rlnc_encode: num_packets linear combinations of packets, row j
\* of coeffs being the coefficients drawn for encoded packet j.
rlnc_encode(packets, num_packets, coeffs) ==
    IF Len(packets) = 0
    THEN <<>>
    ELSE [j \in 1 .. num_packets |->
            SeqSum([i \in 1 .. Len(packets) |-> coeffs[j][i] * packets[i]])]

\* The increase with slow start also at cwnd = ssthresh.
GrownWindowInclusive(c, s, m) ==
    Min2(IF c <= s THEN c * 2 ELSE c + 1, m)

\* The window after the increase and the cap (lines 52-61).
GrownWindow(c, s, m) ==
    Min2(IF c < s THEN c * 2 ELSE c + 1, m)

\* The loop over the encoded packets without its break: the result is the
\* index of the last packet lost, 0 when none is.
LastLoss(encoded, loss) ==
    LET lost == {j \in 1 .. Len(encoded) : loss[j]}
    IN  IF lost = {} THEN 0 ELSE CHOOSE j \in lost : \A k \in lost : j >= k

\* The loop over the encoded packets (lines 66-71): loss[j] is the loss
\* decision drawn for packet j.  The result is the index of the first packet
\* lost, 0 when none is.
FirstLoss(encoded, loss) ==
    LET lost == {j \in 1 .. Len(encoded) : loss[j]}
    IN  IF lost = {} THEN 0 ELSE CHOOSE j \in lost : \A k \in lost : j <= k

\* Vehicle.handle_congestion_control, as a function of the state it reads
\* and of the random draws it makes.
CongestionResult(c, s, m, packets, coeffs, loss) ==
    LET grown   == GrownWindow(c, s, m)
        encoded == rlnc_encode(packets, grown, coeffs)
        hit     == FirstLoss(encoded, loss)
    IN  [cwnd     |-> IF hit = 0 THEN grown ELSE 1,
         ssthresh |-> IF hit = 0 THEN s ELSE Max2(grown \div 2, 1),
         npackets |-> Len(encoded),
         examined |-> IF hit = 0 THEN Len(encoded) ELSE hit,
         lost     |-> hit # 0]

\* Vehicle.handle_congestion_control on vehicle v.
handle_congestion_control(v) ==
    /\ Len(congestion_queue) < MaxFeedback
    /\ \E coeffs \in [1 .. max_window_size[v] ->
                        [1 .. Len(data_packets[v]) -> CoeffSamples]],
          loss \in [1 .. max_window_size[v] -> BOOLEAN] :
         LET r == CongestionResult(cwnd[v], ssthresh[v], max_window_size[v],
                                   data_packets[v], coeffs, loss)
         IN  /\ cwnd' = [cwnd EXCEPT ![v] = r.cwnd]
             /\ ssthresh' = [ssthresh EXCEPT ![v] = r.ssthresh]
             /\ congestion_queue' = Append(congestion_queue, r.cwnd)
             /\ last' = [op |-> "handle_congestion_control", v |-> v,
                         cwnd |-> cwnd[v], ssthresh |-> ssthresh[v],
                         npackets |-> r.npackets, examined |-> r.examined,
                         lost |-> r.lost, loss |-> loss,
                         fed |-> Len(congestion_queue)]

\* Vehicle.__init__ of vehiclePlatoon.py, the fields the controller uses.
InitController ==
    \E m \in 1 .. MaxWindow, n \in 0 .. MaxData :
        /\ vehicles = {0}
        /\ running = [v \in Ids |-> TRUE]
        /\ cwnd = [v \in Ids |-> 1]
        /\ ssthresh = [v \in Ids |-> m \div 2]
        /\ max_window_size = [v \in Ids |-> m]
        /\ data_packets = [v \in Ids |-> [i \in 1 .. n |-> 1]]
        /\ position = [v \in Ids |-> 0]
        /\ speed = [v \in Ids |-> 0]
        /\ synchronized = [v \in Ids |-> FALSE]
        /\ obstacle_detected = [v \in Ids |-> FALSE]
        /\ direction = [v \in Ids |-> "straight"]
        /\ leader = [v \in Ids |-> NoLeader]
        /\ error_data = [k \in ErrorKinds |-> <<>>]
        /\ age_factor = 1
        /\ heartbeat_queue = <<>>
        /\ congestion_queue = <<>>
        /\ metrics_len = [v \in Ids |-> 0]
        /\ pc = [v \in Ids |-> "new"]
        /\ ticks = 0
        /\ sender = [running |-> FALSE, pc |-> "new", sent |-> 0]
        /\ main = [pc |-> "done", i |-> 0]
        /\ last = [op |-> "init"]
        /\ local = [v \in Ids |-> NoLocals]
        /\ hist = NoHistory

ControllerTick ==
    /\ \E v \in vehicles : handle_congestion_control(v)
    /\ UNCHANGED <<vehicles, running, max_window_size, data_packets,
                   position, speed, synchronized, obstacle_detected,
                   direction, leader, error_data, age_factor,
                   heartbeat_queue, metrics_len, pc, ticks, sender, main,
                   local, hist>>

\* The controller on its own: a Vehicle of any window size with any pending
\* data, ticked under any loss sequence.
SpecController == InitController /\ [][ControllerTick]_vars

\* C1: for every vehicle constructed with max_window_size >= 1, in every
\* reachable state 1 <= cwnd <= max_window_size and ssthresh >= 1.
WindowBounds ==
    \A v \in vehicles :
        /\ 1 <= cwnd[v]
        /\ cwnd[v] <= max_window_size[v]
        /\ ssthresh[v] >= 1

---------------------------------------------------------------------------
(* vpemer.py: binary messages and the error codec.                         *)

RECURSIVE BinToInt(_)
\* int(binary_message, 2)
BinToInt(msg) ==
    IF msg = <<>> THEN 0
    ELSE 2 * BinToInt(SubSeq(msg, 1, Len(msg) - 1)) + msg[Len(msg)]

RECURSIVE BinDigits(_)
\* the binary digits of n >= 0 without leading zeros ("0" for 0)
BinDigits(n) ==
    IF n < 2 THEN <<n>> ELSE Append(BinDigits(n \div 2), n % 2)

\* int_to_binary_string(n, bits): f"{n:0{bits}b}", zero-padded on the left
\* to at least bits digits
int_to_binary_string(n, bits) ==
    LET d == BinDigits(n)
    IN  IF Len(d) >= bits THEN d
        ELSE [i \in 1 .. (bits - Len(d)) |-> 0] \o d

\* binary_message.count('1')
CountOnes(msg) == Cardinality({i \in 1 .. Len(msg) : msg[i] = 1})

\* binary_message.count('1') % 2
Parity(msg) == CountOnes(msg) % 2

\* flip_bit(binary_str, index), index counted from 0 as in the source
flip_bit(binary_str, index) ==
    [k \in 1 .. Len(binary_str) |->
        IF k = index + 1 THEN 1 - binary_str[k] ELSE binary_str[k]]

\* error_data[kind][vehicle_id] exists (no IndexError)
HasCounter(err, kind, vehicle_id) == (vehicle_id + 1) \in DOMAIN err[kind]

\* the increment landing in the first slot of the list
CountedInFirstSlot(err, kind, vehicle_id) ==
    [err EXCEPT ![kind][1] = @ + 1]

\* error_data[kind][vehicle_id] += 1
Counted(err, kind, vehicle_id) ==
    [err EXCEPT ![kind][vehicle_id + 1] = @ + 1]

\* The result of a codec step: what it returned (ok), the heartbeat dict as
\* it left it (hb), error_data as it left it (err), and whether it raised
\* instead of returning.
Outcome(ok, hb, err, raised) ==
    [ok |-> ok, hb |-> hb, err |-> err, raised |-> raised]

\* correct_single_bit_error scanning the bit positions from the right
correct_single_bit_error_from_right(hb, vehicle_id, err) ==
    LET binary_message == hb.binary_message
        fixes == {i \in 0 .. (Len(binary_message) - 1) :
                    Parity(flip_bit(binary_message, i)) = hb.parity}
        final == CHOOSE i \in fixes : \A j \in fixes : i >= j
        fixed == [hb EXCEPT !.binary_message = flip_bit(binary_message, final)]
    IN  IF hb.parity # Parity(binary_message) /\ fixes # {}
        THEN Outcome(TRUE, fixed, Counted(err, SINGLE_BIT, vehicle_id), FALSE)
        ELSE Outcome(FALSE, hb, err, FALSE)

\* Vehicle.correct_single_bit_error
correct_single_bit_error(hb, vehicle_id, err) ==
    LET binary_message    == hb.binary_message
        original_parity   == hb.parity
        calculated_parity == Parity(binary_message)
        fixes == {i \in 0 .. (Len(binary_message) - 1) :
                    Parity(flip_bit(binary_message, i)) = original_parity}
        first == CHOOSE i \in fixes : \A j \in fixes : i <= j
        fixed == [hb EXCEPT !.binary_message = flip_bit(binary_message, first)]
    IN  IF original_parity # calculated_parity /\ fixes # {}
        THEN IF HasCounter(err, SINGLE_BIT, vehicle_id)
             THEN Outcome(TRUE, fixed, Counted(err, SINGLE_BIT, vehicle_id),
                          FALSE)
             ELSE Outcome(FALSE, fixed, err, TRUE)
        ELSE Outcome(FALSE, hb, err, FALSE)

\* heartbeat.get("redundant_messages", [heartbeat["binary_message"]])
RedundantMessages(hb) ==
    IF "redundant_messages" \in DOMAIN hb
    THEN hb.redundant_messages
    ELSE <<hb.binary_message>>

\* redundant_messages.count(m)
CountOf(messages, m) == Cardinality({i \in 1 .. Len(messages) : messages[i] = m})

\* The values max(set(redundant_messages), key=redundant_messages.count) can
\* return: max keeps the first of the most frequent values in the set's
\* iteration order, and the order of a set of str is not fixed.
MajorityMessages(messages) ==
    {m \in {messages[i] : i \in 1 .. Len(messages)} :
        \A j \in 1 .. Len(messages) :
            CountOf(messages, messages[j]) <= CountOf(messages, m)}

\* Vehicle.correct_burst_error: the set of its possible results
correct_burst_error(hb, err) ==
    LET redundant_messages == RedundantMessages(hb)
    IN  IF Len(redundant_messages) < 3
        THEN {Outcome(FALSE, hb, err, FALSE)}
        ELSE {IF majority_message # hb.binary_message
              THEN Outcome(TRUE,
                           [hb EXCEPT !.binary_message = majority_message],
                           err, FALSE)
              ELSE Outcome(FALSE, hb, err, FALSE) :
                majority_message \in MajorityMessages(redundant_messages)}

\* heartbeat.get('error_type')
ErrorType(hb) == IF "error_type" \in DOMAIN hb THEN hb.error_type ELSE PyNone

\* Vehicle.detect_and_correct_errors: the set of its possible results
detect_and_correct_errors(hb, vehicle_id, err) ==
    IF ErrorType(hb) = SINGLE_BIT
    THEN {correct_single_bit_error(hb, vehicle_id, err)}
    ELSE IF ErrorType(hb) = DOUBLE_BIT
    THEN IF HasCounter(err, DOUBLE_BIT, vehicle_id)
         THEN {Outcome(FALSE, hb, Counted(err, DOUBLE_BIT, vehicle_id), FALSE)}
         ELSE {Outcome(FALSE, hb, err, TRUE)}
    ELSE IF ErrorType(hb) = BURST
    THEN IF HasCounter(err, BURST, vehicle_id)
         THEN correct_burst_error(hb, Counted(err, BURST, vehicle_id))
         ELSE {Outcome(FALSE, hb, err, TRUE)}
    ELSE {Outcome(TRUE, hb, err, FALSE)}

---------------------------------------------------------------------------
(* vpemer.py: the heartbeat channel.  queue.PriorityQueue keeps its        *)
(* entries in a heapq list; positions are counted from 0 as heapq does.    *)

\* largest number of entries the model lets the channel hold
MaxQueue == 1

\* (priority, heartbeat) tuples compare by priority, then by heartbeat;
\* equal dicts make equal tuples, and two different dicts cannot be ordered
\* (TypeError).
Comparable(a, b) == a[1] # b[1] \/ a[2] = b[2]
EntryLess(a, b) == a[1] < b[1]

Swapped(heap, i, j) ==
    [heap EXCEPT ![i + 1] = heap[j + 1], ![j + 1] = heap[i + 1]]

RECURSIVE SiftDown(_, _, _)
\* heapq's siftdown: move heap[pos] up while it is less than its parent.
\* error: a comparison raised TypeError and the heap was left as it was then.
SiftDown(heap, startpos, pos) ==
    IF pos > startpos
    THEN LET parentpos == (pos - 1) \div 2
             newitem   == heap[pos + 1]
             parent    == heap[parentpos + 1]
         IN  IF ~Comparable(newitem, parent)
             THEN [heap |-> heap, error |-> TRUE]
             ELSE IF EntryLess(newitem, parent)
             THEN SiftDown(Swapped(heap, pos, parentpos), startpos, parentpos)
             ELSE [heap |-> heap, error |-> FALSE]
    ELSE [heap |-> heap, error |-> FALSE]

RECURSIVE SiftUp(_, _, _)
\* heapq's siftup: move the smaller child up until a leaf is reached, then
\* sift the displaced item down from there.
SiftUp(heap, startpos, pos) ==
    LET endpos   == Len(heap)
        childpos == 2 * pos + 1
    IN  IF pos < endpos \div 2
        THEN IF childpos + 1 < endpos
                /\ ~Comparable(heap[childpos + 1], heap[childpos + 2])
             THEN [heap |-> heap, error |-> TRUE]
             ELSE LET smaller ==
                          IF childpos + 1 < endpos
                             /\ ~EntryLess(heap[childpos + 1], heap[childpos + 2])
                          THEN childpos + 1
                          ELSE childpos
                  IN  SiftUp(Swapped(heap, smaller, pos), startpos, smaller)
        ELSE SiftDown(heap, startpos, pos)

\* heapq.heappush(heap, item)
heappush(heap, item) == SiftDown(Append(heap, item), 0, Len(heap))

\* a get that returns the first entry and leaves it queued
heappop_leaving(heap) ==
    [item |-> heap[1], heap |-> heap, error |-> FALSE]

\* heapq.heappop(heap) of a non-empty heap: the item returned, the heap
\* left, and whether a comparison raised (the item is then not returned).
heappop(heap) ==
    LET lastelt == heap[Len(heap)]
        rest    == SubSeq(heap, 1, Len(heap) - 1)
    IN  IF rest = <<>>
        THEN [item |-> lastelt, heap |-> rest, error |-> FALSE]
        ELSE LET r == SiftUp([rest EXCEPT ![1] = lastelt], 0, 0)
             IN  [item |-> rest[1], heap |-> r.heap, error |-> r.error]

\* AgedPriorityQueue.put storing the priority without the floor of 1
AgedPutUnfloored(heap, priority, heartbeat, age) ==
    heappush(heap, <<priority - age, heartbeat>>)

\* AgedPriorityQueue.put((priority, heartbeat)) on the heap list
AgedPut(heap, priority, heartbeat, age) ==
    LET age_adjusted_priority == Max2(1, priority - age)
    IN  heappush(heap, <<age_adjusted_priority, heartbeat>>)

---------------------------------------------------------------------------
(* vpemer.py: the vehicle.                                                 *)

\* largest number of loop iterations the vehicles start, all together
MaxTicks == 2

\* the values drawn for random.uniform(40, 60): both ends
SpeedSamples == {40, 60}
\* the values drawn for random.uniform(-5, 5): both ends
ChangeSamples == {-5, 5}
\* random.choice(["straight", "left", "right"])
Directions == {"straight", "left", "right"}

\* Vehicle.adjust_speed: the speed it sets
AdjustedSpeed(v, change) ==
    IF leader[v] # NoLeader
    THEN speed[leader[v]]
    ELSE Max2(10, Min2(speed[v] + change, MAX_SPEED))

\* the fields of vehicle v that process_heartbeat may write
VehicleFields(v) ==
    [speed |-> speed[v], position |-> position[v],
     synchronized |-> synchronized[v]]

\* an adjust_speed that also marks the vehicle synchronized
AfterAdjustSynchronizing(v, change) ==
    [speed |-> AdjustedSpeed(v, change),
     position |-> position[v] + AdjustedSpeed(v, change),
     synchronized |-> TRUE]

\* Vehicle.adjust_speed: the fields of v after it
AfterAdjust(v, change) ==
    [speed |-> AdjustedSpeed(v, change),
     position |-> position[v] + AdjustedSpeed(v, change),
     synchronized |-> synchronized[v]]

\* process_heartbeat using the heartbeat whatever detect_and_correct_errors
\* returned
AfterProcessIgnoringResult(v, o, change) ==
    IF o.hb.sync /\ running[v]
    THEN LET s == Min2(BinToInt(o.hb.binary_message), MAX_SPEED)
         IN  [speed |-> s, position |-> position[v] + s, synchronized |-> TRUE]
    ELSE AfterAdjust(v, change)

\* process_heartbeat adopting the decoded speed without the MAX_SPEED cap
AfterProcessUncapped(v, o, change) ==
    IF o.raised \/ ~o.ok THEN VehicleFields(v)
    ELSE IF o.hb.sync /\ running[v]
    THEN LET s == BinToInt(o.hb.binary_message)
         IN  [speed |-> s, position |-> position[v] + s, synchronized |-> TRUE]
    ELSE AfterAdjust(v, change)

\* Vehicle.process_heartbeat after detect_and_correct_errors ended with
\* outcome o: the fields of v after it
AfterProcess(v, o, change) ==
    IF o.raised THEN VehicleFields(v)
    ELSE IF o.ok
    THEN IF o.hb.sync /\ running[v]
         THEN LET s == Min2(BinToInt(o.hb.binary_message), MAX_SPEED)
              IN  [speed |-> s, position |-> position[v] + s,
                   synchronized |-> TRUE]
         ELSE AfterAdjust(v, change)
    ELSE VehicleFields(v)

\* Vehicle.process_heartbeat(heartbeat) on vehicle v
process_heartbeat(v, hb) ==
    \E o \in detect_and_correct_errors(hb, v, error_data),
       change \in ChangeSamples :
        LET after == AfterProcess(v, o, change)
        IN  /\ error_data' = o.err
            /\ speed' = [speed EXCEPT ![v] = after.speed]
            /\ position' = [position EXCEPT ![v] = after.position]
            /\ synchronized' = [synchronized EXCEPT ![v] = after.synchronized]
            /\ last' = [op |-> "process_heartbeat", v |-> v, hb |-> hb,
                        out |-> o.hb, ok |-> o.ok, raised |-> o.raised,
                        before |-> VehicleFields(v), running |-> running[v],
                        leader |-> leader[v], error_data |-> error_data]

\* Vehicle.adjust_speed() on vehicle v
adjust_speed(v) ==
    \E change \in ChangeSamples :
        /\ speed' = [speed EXCEPT ![v] = AfterAdjust(v, change).speed]
        /\ position' = [position EXCEPT ![v] = AfterAdjust(v, change).position]
        /\ last' = [op |-> "adjust_speed", v |-> v,
                    before |-> VehicleFields(v), leader |-> leader[v]]

\* the vehicles assign_leader chooses among
VehiclesInDirection(v) ==
    {u \in vehicles : direction[u] = direction[v] /\ position[u] > position[v]}

\* max(vehicles_in_direction, key=lambda v: v.position): the first vehicle
\* of the list with the greatest position
MaxByPosition(candidates) ==
    CHOOSE u \in candidates :
        \A w \in candidates :
            \/ position[w] < position[u]
            \/ position[w] = position[u] /\ u <= w

\* Vehicle.assign_leader: the leader of v after it
AssignedLeader(v) ==
    IF VehiclesInDirection(v) # {}
    THEN MaxByPosition(VehiclesInDirection(v))
    ELSE leader[v]

\* the part of run() that receives: heartbeat_queue.get(timeout=1) found an
\* entry, which process_heartbeat then handles (lines 76-80)
Receive(v) ==
    /\ pc[v] = "recv"
    /\ heartbeat_queue # <<>>
    /\ LET got == heappop(heartbeat_queue)
       IN  /\ heartbeat_queue' = got.heap
           /\ IF got.error
              THEN /\ pc' = [pc EXCEPT ![v] = "crashed"]
                   /\ last' = [op |-> "get", v |-> v, raised |-> TRUE]
                   /\ UNCHANGED <<error_data, speed, position, synchronized,
                                  hist>>
              ELSE /\ process_heartbeat(v, got.item[2])
                   /\ pc' = [pc EXCEPT ![v] =
                               IF last'.raised THEN "crashed" ELSE "intersect"]
                   /\ hist' = [hist EXCEPT !.received = @ + 1]
    /\ UNCHANGED <<vehicles, running, cwnd, ssthresh, max_window_size,
                   data_packets, obstacle_detected, direction, leader,
                   age_factor, congestion_queue, metrics_len, ticks, sender,
                   main, local>>

\* the part of run() that receives when the queue stays empty: queue.Empty
\* after the timeout, then adjust_speed (lines 82-84)
ReceiveTimeout(v) ==
    /\ pc[v] = "recv"
    /\ heartbeat_queue = <<>>
    /\ adjust_speed(v)
    /\ pc' = [pc EXCEPT ![v] = "intersect"]
    /\ UNCHANGED <<vehicles, running, cwnd, ssthresh, max_window_size,
                   data_packets, synchronized, obstacle_detected, direction,
                   leader, error_data, age_factor, heartbeat_queue,
                   congestion_queue, metrics_len, ticks, sender, main,
                   local, hist>>

\* a loop test that does not read the stop signal
VehicleNeverExits(v) == FALSE /\ UNCHANGED vars

\* the loop condition self.running read as false: run() returns (line 66)
VehicleExit(v) ==
    /\ pc[v] = "top"
    /\ ~running[v]
    /\ pc' = [pc EXCEPT ![v] = "done"]
    /\ last' = [op |-> "exit", v |-> v]
    /\ UNCHANGED <<vehicles, running, cwnd, ssthresh, max_window_size,
                   data_packets, position, speed, synchronized,
                   obstacle_detected, direction, leader, error_data,
                   age_factor, heartbeat_queue, congestion_queue, metrics_len,
                   ticks, sender, main,
                   local, hist>>

\* a speed left as it is
Undecelerated(s) == s

\* max(0, speed - 10) without the floor
DeceleratedUnfloored(s) == s - 10

\* a speed lowered by the fixed step: max(0, speed - 10) (lines 185, 189)
Decelerated(s) == Max2(0, s - 10)

\* the vehicles handle_obstacle of v flags and slows down
Notified(v) == {u \in vehicles : u # v /\ ~obstacle_detected[u]}

\* Vehicle.handle_obstacle without the `continue`: the iteration goes on to
\* the receive
handle_obstacle_then_receive(v) ==
    /\ pc[v] = "top"
    /\ running[v]
    /\ obstacle_detected[v]
    /\ ticks < MaxTicks
    /\ ticks' = ticks + 1
    /\ IF speed[v] > 0
       THEN /\ speed' = [u \in Ids |->
                            IF u = v \/ u \in Notified(v)
                            THEN Decelerated(speed[u])
                            ELSE speed[u]]
            /\ obstacle_detected' = [u \in Ids |->
                            obstacle_detected[u] \/ u \in Notified(v)]
       ELSE /\ obstacle_detected' = [obstacle_detected EXCEPT ![v] = FALSE]
            /\ UNCHANGED speed
    /\ pc' = [pc EXCEPT ![v] = "recv"]
    /\ last' = [op |-> "handle_obstacle", v |-> v]
    /\ UNCHANGED <<vehicles, running, cwnd, ssthresh, max_window_size,
                   data_packets, position, synchronized, direction, leader,
                   error_data, age_factor, heartbeat_queue, congestion_queue,
                   metrics_len, sender, main,
                   local, hist>>

\* Vehicle.handle_obstacle, then `continue` (lines 68-70)
handle_obstacle(v) ==
    /\ pc[v] = "top"
    /\ running[v]
    /\ obstacle_detected[v]
    /\ ticks < MaxTicks
    /\ ticks' = ticks + 1
    /\ IF speed[v] > 0
       THEN /\ speed' = [u \in Ids |->
                            IF u = v \/ u \in Notified(v)
                            THEN Decelerated(speed[u])
                            ELSE speed[u]]
            /\ obstacle_detected' = [u \in Ids |->
                            obstacle_detected[u] \/ u \in Notified(v)]
       ELSE /\ obstacle_detected' = [obstacle_detected EXCEPT ![v] = FALSE]
            /\ UNCHANGED speed
    /\ last' = [op |-> "handle_obstacle", v |-> v]
    /\ UNCHANGED <<vehicles, running, cwnd, ssthresh, max_window_size,
                   data_packets, position, synchronized, direction, leader,
                   error_data, age_factor, heartbeat_queue, congestion_queue,
                   metrics_len, pc, sender, main,
                   local, hist>>

\* the start of a loop iteration without obstacle: wants_to_turn() and, when
\* it says so, the first statement of assign_leader, which builds the list
\* vehicles_in_direction from the other vehicles' fields (lines 72-73, 103)
TurnCheckWithin(v, budget) ==
    /\ pc[v] = "top"
    /\ running[v]
    /\ ~obstacle_detected[v]
    /\ ticks < budget
    /\ \E wants_to_turn \in BOOLEAN :
         /\ local' = [local EXCEPT ![v].candidates =
                         IF wants_to_turn THEN VehiclesInDirection(v) ELSE {}]
         /\ pc' = [pc EXCEPT ![v] =
                      IF wants_to_turn /\ VehiclesInDirection(v) # {}
                      THEN "assign" ELSE "recv"]
         /\ last' = [op |-> "turn_check", v |-> v,
                     wants_to_turn |-> wants_to_turn, leader |-> leader[v]]
    /\ ticks' = ticks + 1
    /\ UNCHANGED <<vehicles, running, cwnd, ssthresh, max_window_size,
                   data_packets, position, speed, synchronized,
                   obstacle_detected, direction, leader, error_data,
                   age_factor, heartbeat_queue, congestion_queue, metrics_len,
                   sender, main, hist>>

\* the same, for at most MaxTicks loop iterations
TurnCheck(v) == TurnCheckWithin(v, MaxTicks)

\* the rest of assign_leader when the list is not empty: max(...) over the
\* list built before, by the positions the vehicles have now, stored in
\* self.leader (lines 105-107)
assign_leader(v) ==
    /\ pc[v] = "assign"
    /\ LET chosen == MaxByPosition(local[v].candidates)
       IN  /\ leader' = [leader EXCEPT ![v] = chosen]
           /\ hist' = [hist EXCEPT !.leader_speed[v] = speed[chosen]]
    /\ local' = [local EXCEPT ![v].candidates = {}]
    /\ pc' = [pc EXCEPT ![v] = "recv"]
    /\ last' = [op |-> "assign_leader", v |-> v, assigned |-> TRUE]
    /\ UNCHANGED <<vehicles, running, cwnd, ssthresh, max_window_size,
                   data_packets, position, speed, synchronized,
                   obstacle_detected, direction, error_data, age_factor,
                   heartbeat_queue, congestion_queue, metrics_len, ticks,
                   sender, main>>

\* Vehicle.handle_intersection: what it writes (direction, leader, speed)
handle_intersection(v) ==
    \E at_intersection \in BOOLEAN, can_turn \in BOOLEAN, d \in Directions :
        LET turning == at_intersection /\ direction[v] \in {"left", "right"}
        IN  /\ direction' = [direction EXCEPT ![v] =
                               IF turning /\ can_turn THEN d ELSE @]
            /\ leader' = [leader EXCEPT ![v] =
                               IF turning /\ can_turn THEN NoLeader ELSE @]
            /\ speed' = [speed EXCEPT ![v] =
                               IF turning /\ ~can_turn THEN 0 ELSE @]

\* Vehicle.log_metrics: one more entry in each list of v
log_metrics(v) ==
    metrics_len' = [metrics_len EXCEPT ![v] = @ + 1]

\* a detect_obstacle that stores the outcome of the draw whatever the flag
detect_obstacle_overwriting(v) ==
    \E detected \in BOOLEAN :
        obstacle_detected' = [obstacle_detected EXCEPT ![v] = detected]

\* Vehicle.detect_obstacle
detect_obstacle(v) ==
    \E detected \in BOOLEAN :
        obstacle_detected' = [obstacle_detected EXCEPT ![v] = @ \/ detected]

\* the rest of the loop body after the receive: handle_intersection,
\* log_metrics, detect_obstacle, time.sleep(1) (lines 86-91)
EndTick(v) ==
    /\ pc[v] = "intersect"
    /\ handle_intersection(v)
    /\ log_metrics(v)
    /\ detect_obstacle(v)
    /\ pc' = [pc EXCEPT ![v] = "top"]
    /\ last' = [op |-> "end_tick", v |-> v]
    /\ UNCHANGED <<vehicles, running, cwnd, ssthresh, max_window_size,
                   data_packets, position, synchronized, error_data,
                   age_factor, heartbeat_queue, congestion_queue, ticks,
                   sender, main,
                   local, hist>>

---------------------------------------------------------------------------
(* vpemer.py: the heartbeat sender and the driver.                         *)

\* largest number of heartbeats the sender puts
MaxSent == 1

\* the values drawn for random.randint(0, 255): one below and one above
\* MAX_SPEED
PayloadSamples == {100, 200}
\* the value drawn for random.uniform(40, 60) when the driver constructs a
\* vehicle: the middle
DriverSpeedSamples == {50}
\* the values drawn for random.randint(1, 10): the two lowest, which the
\* aging of put() makes equal
PrioritySamples == {1, 2}

\* a sender that transmits the opposite of the payload's parity
create_heartbeat_message_odd(n, sync, error_type) ==
    LET binary_message == int_to_binary_string(n, 8)
    IN  [binary_message |-> binary_message,
         parity |-> 1 - Parity(binary_message),
         sync |-> sync,
         error_type |-> error_type]

\* HeartbeatSender.create_heartbeat_message
create_heartbeat_message(n, sync, error_type) ==
    LET binary_message == int_to_binary_string(n, 8)
    IN  [binary_message |-> binary_message,
         parity |-> Parity(binary_message),
         sync |-> sync,
         error_type |-> error_type]

\* one iteration of HeartbeatSender.run
SenderPut ==
    /\ sender.pc = "loop"
    /\ sender.running
    /\ Len(heartbeat_queue) < MaxQueue
    /\ sender.sent < MaxSent
    /\ \E n \in PayloadSamples, sync \in BOOLEAN, priority \in PrioritySamples,
          error_type \in {PyNone, SINGLE_BIT, DOUBLE_BIT, BURST} :
         LET put == AgedPut(heartbeat_queue, priority,
                            create_heartbeat_message(n, sync, error_type),
                            age_factor)
         IN  /\ heartbeat_queue' = put.heap
             /\ sender' = [sender EXCEPT
                              !.pc = IF put.error THEN "crashed" ELSE "loop",
                              !.sent = @ + 1]
    /\ last' = [op |-> "put"]
    /\ UNCHANGED <<vehicles, running, cwnd, ssthresh, max_window_size,
                   data_packets, position, speed, synchronized,
                   obstacle_detected, direction, leader, error_data,
                   age_factor, congestion_queue, metrics_len, pc, ticks, main,
                   local, hist>>

\* HeartbeatSender.run reads running as false and returns
SenderExit ==
    /\ sender.pc = "loop"
    /\ ~sender.running
    /\ sender' = [sender EXCEPT !.pc = "done"]
    /\ last' = [op |-> "sender_exit"]
    /\ UNCHANGED <<vehicles, running, cwnd, ssthresh, max_window_size,
                   data_packets, position, speed, synchronized,
                   obstacle_detected, direction, leader, error_data,
                   age_factor, heartbeat_queue, congestion_queue, metrics_len,
                   pc, ticks, main,
                   local, hist>>

\* create_vehicles_and_start_simulation: the sender is created and started
MainStartSender ==
    /\ main.pc = "start_sender"
    /\ sender' = [running |-> TRUE, pc |-> "loop", sent |-> 0]
    /\ main' = [main EXCEPT !.pc = "create"]
    /\ last' = [op |-> "start_sender"]
    /\ UNCHANGED <<vehicles, running, cwnd, ssthresh, max_window_size,
                   data_packets, position, speed, synchronized,
                   obstacle_detected, direction, leader, error_data,
                   age_factor, heartbeat_queue, congestion_queue, metrics_len,
                   pc, ticks,
                   local, hist>>

\* create_vehicles_and_start_simulation: Vehicle(vehicle_id=i, ...) is
\* constructed, appended to vehicles and started (lines 268-271)
MainCreateVehicle ==
    /\ main.pc = "create"
    /\ \E s \in DriverSpeedSamples, d \in Directions :
         LET i == main.i
         IN  /\ vehicles' = vehicles \cup {i}
             /\ running' = [running EXCEPT ![i] = TRUE]
             /\ cwnd' = [cwnd EXCEPT ![i] = 1]
             /\ ssthresh' = [ssthresh EXCEPT ![i] = DEFAULT_MAX_WINDOW_SIZE \div 2]
             /\ max_window_size' = [max_window_size EXCEPT ![i] =
                                        DEFAULT_MAX_WINDOW_SIZE]
             /\ position' = [position EXCEPT ![i] = 0]
             /\ speed' = [speed EXCEPT ![i] = s]
             /\ synchronized' = [synchronized EXCEPT ![i] = FALSE]
             /\ obstacle_detected' = [obstacle_detected EXCEPT ![i] = FALSE]
             /\ direction' = [direction EXCEPT ![i] = d]
             /\ leader' = [leader EXCEPT ![i] = NoLeader]
             /\ error_data' = [k \in ErrorKinds |-> Append(error_data[k], 0)]
             /\ pc' = [pc EXCEPT ![i] = "top"]
             /\ main' = IF i + 1 < NumVehicles
                        THEN [main EXCEPT !.i = i + 1]
                        ELSE [pc |-> "sleep", i |-> 0]
    /\ last' = [op |-> "create_vehicle"]
    /\ UNCHANGED <<data_packets, age_factor, heartbeat_queue, congestion_queue,
                   metrics_len, ticks, sender, local, hist>>

\* the simulation time is over: heartbeat_sender.stop()
MainStopSender ==
    /\ main.pc = "sleep"
    /\ sender' = [sender EXCEPT !.running = FALSE]
    /\ main' = [main EXCEPT !.pc = "join_sender"]
    /\ last' = [op |-> "stop_sender"]
    /\ UNCHANGED <<vehicles, running, cwnd, ssthresh, max_window_size,
                   data_packets, position, speed, synchronized,
                   obstacle_detected, direction, leader, error_data,
                   age_factor, heartbeat_queue, congestion_queue, metrics_len,
                   pc, ticks,
                   local, hist>>

\* heartbeat_sender.join() returns once the sender thread has ended
MainJoinSender ==
    /\ main.pc = "join_sender"
    /\ sender.pc \in {"done", "crashed"}
    /\ main' = [pc |-> "stop_vehicle", i |-> 0]
    /\ last' = [op |-> "join_sender"]
    /\ UNCHANGED <<vehicles, running, cwnd, ssthresh, max_window_size,
                   data_packets, position, speed, synchronized,
                   obstacle_detected, direction, leader, error_data,
                   age_factor, heartbeat_queue, congestion_queue, metrics_len,
                   pc, ticks, sender,
                   local, hist>>

\* vehicle.stop() for the next vehicle of the list
MainStopVehicle ==
    /\ main.pc = "stop_vehicle"
    /\ running' = [running EXCEPT ![main.i] = FALSE]
    /\ main' = [main EXCEPT !.pc = "join_vehicle"]
    /\ last' = [op |-> "stop", v |-> main.i]
    /\ UNCHANGED <<vehicles, cwnd, ssthresh, max_window_size, data_packets,
                   position, speed, synchronized, obstacle_detected, direction,
                   leader, error_data, age_factor, heartbeat_queue,
                   congestion_queue, metrics_len, pc, ticks, sender,
                   local, hist>>

\* vehicle.join() returns once that vehicle's thread has ended
MainJoinVehicle ==
    /\ main.pc = "join_vehicle"
    /\ pc[main.i] \in {"done", "crashed"}
    /\ main' = IF main.i + 1 < NumVehicles
               THEN [pc |-> "stop_vehicle", i |-> main.i + 1]
               ELSE [pc |-> "done", i |-> 0]
    /\ last' = [op |-> "join", v |-> main.i]
    /\ UNCHANGED <<vehicles, running, cwnd, ssthresh, max_window_size,
                   data_packets, position, speed, synchronized,
                   obstacle_detected, direction, leader, error_data,
                   age_factor, heartbeat_queue, congestion_queue, metrics_len,
                   pc, ticks, sender,
                   local, hist>>

\* the module-level state of vpemer.py when the driver is called
InitEmergency ==
    /\ vehicles = {}
    /\ running = [v \in Ids |-> FALSE]
    /\ cwnd = [v \in Ids |-> 1]
    /\ ssthresh = [v \in Ids |-> DEFAULT_MAX_WINDOW_SIZE \div 2]
    /\ max_window_size = [v \in Ids |-> DEFAULT_MAX_WINDOW_SIZE]
    /\ data_packets = [v \in Ids |-> <<>>]
    /\ position = [v \in Ids |-> 0]
    /\ speed = [v \in Ids |-> 0]
    /\ synchronized = [v \in Ids |-> FALSE]
    /\ obstacle_detected = [v \in Ids |-> FALSE]
    /\ direction = [v \in Ids |-> "straight"]
    /\ leader = [v \in Ids |-> NoLeader]
    /\ error_data = [k \in ErrorKinds |-> <<>>]
    /\ age_factor = 1
    /\ heartbeat_queue = <<>>
    /\ congestion_queue = <<>>
    /\ metrics_len = [v \in Ids |-> 0]
    /\ pc = [v \in Ids |-> "new"]
    /\ ticks = 0
    /\ sender = [running |-> FALSE, pc |-> "new", sent |-> 0]
    /\ main = [pc |-> "start_sender", i |-> 0]
    /\ last = [op |-> "init"]
    /\ local = [v \in Ids |-> NoLocals]
    /\ hist = NoHistory

\* the steps of the thread of vehicle v, which starts at most budget loop
\* iterations without obstacle
VehicleStepWithin(v, budget) ==
    \/ VehicleExit(v)
    \/ handle_obstacle(v)
    \/ TurnCheckWithin(v, budget)
    \/ assign_leader(v)
    \/ Receive(v)
    \/ ReceiveTimeout(v)
    \/ EndTick(v)

VehicleStep(v) == VehicleStepWithin(v, MaxTicks)

NextEmergency ==
    \/ MainStartSender
    \/ MainCreateVehicle
    \/ MainStopSender
    \/ MainJoinSender
    \/ MainStopVehicle
    \/ MainJoinVehicle
    \/ SenderPut
    \/ SenderExit
    \/ \E v \in vehicles : VehicleStep(v)

\* vpemer.py as run: the driver, the sender and the vehicle threads
SpecEmergency == InitEmergency /\ [][NextEmergency]_vars

\* the steps of the sender thread
SenderStep == SenderPut \/ SenderExit

\* largest number of loop iterations without obstacle the vehicles start,
\* all together, in the run that is followed to its end
MaxStopTicks == 1

NextShutdown ==
    \/ MainStartSender
    \/ MainCreateVehicle
    \/ MainStopSender
    \/ MainJoinSender
    \/ MainStopVehicle
    \/ MainJoinVehicle
    \/ SenderPut
    \/ SenderExit
    \/ \E v \in vehicles : VehicleStepWithin(v, MaxStopTicks)

\* vpemer.py as run under a scheduler that lets every started thread run
\* again and again: put() on the unbounded queue does not block, get()
\* returns after its timeout, and every sleep ends
SpecShutdown ==
    /\ InitEmergency
    /\ [][NextShutdown]_vars
    /\ \A v \in Ids :
          WF_vars(v \in vehicles /\ VehicleStepWithin(v, MaxStopTicks))
    /\ WF_vars(SenderStep)

---------------------------------------------------------------------------
(* The codec and process_heartbeat on their own: one vehicle as            *)
(* constructed, handed any heartbeat dict.                                 *)

\* longest binary_message handed in
MaxBits == 3
\* largest number of redundant copies handed in
MaxCopies == 3

Payloads == UNION {[1 .. n -> {0, 1}] : n \in 1 .. MaxBits}

\* the redundant copies handed in with payload msg: the payload itself and
\* the payload with its first or its last bit flipped
CopyVariants(msg) == {msg, flip_bit(msg, 0), flip_bit(msg, Len(msg) - 1)}

\* the heartbeat dicts handed in: with the four keys the sender sets, and,
\* for burst heartbeats, also with a redundant_messages list
HeartbeatInputs ==
    {[binary_message |-> m, parity |-> q, sync |-> b, error_type |-> e] :
        m \in Payloads, q \in {0, 1}, b \in BOOLEAN,
        e \in {PyNone, SINGLE_BIT, DOUBLE_BIT, BURST}}
    \cup
    UNION {{[binary_message |-> m, parity |-> q, sync |-> b,
             error_type |-> BURST, redundant_messages |-> c] :
                q \in {0, 1}, b \in BOOLEAN,
                c \in UNION {[1 .. k -> CopyVariants(m)] : k \in 0 .. MaxCopies}} :
           m \in Payloads}

\* Vehicle.__init__ of vpemer.py for vehicle 0, about to receive the one
\* heartbeat on the queue
InitCodec ==
    \E hb \in HeartbeatInputs, s \in SpeedSamples, d \in Directions :
        /\ vehicles = {0}
        /\ running = [v \in Ids |-> v = 0]
        /\ cwnd = [v \in Ids |-> 1]
        /\ ssthresh = [v \in Ids |-> DEFAULT_MAX_WINDOW_SIZE \div 2]
        /\ max_window_size = [v \in Ids |-> DEFAULT_MAX_WINDOW_SIZE]
        /\ data_packets = [v \in Ids |-> <<>>]
        /\ position = [v \in Ids |-> 0]
        /\ speed = [v \in Ids |-> IF v = 0 THEN s ELSE 0]
        /\ synchronized = [v \in Ids |-> FALSE]
        /\ obstacle_detected = [v \in Ids |-> FALSE]
        /\ direction = [v \in Ids |-> IF v = 0 THEN d ELSE "straight"]
        /\ leader = [v \in Ids |-> NoLeader]
        /\ error_data = [k \in ErrorKinds |-> <<0>>]
        /\ age_factor = 1
        /\ heartbeat_queue = <<<<1, hb>>>>
        /\ congestion_queue = <<>>
        /\ metrics_len = [v \in Ids |-> 0]
        /\ pc = [v \in Ids |-> IF v = 0 THEN "recv" ELSE "new"]
        /\ ticks = 0
        /\ sender = [running |-> FALSE, pc |-> "new", sent |-> 0]
        /\ main = [pc |-> "done", i |-> 0]
        /\ last = [op |-> "init"]
        /\ local = [v \in Ids |-> NoLocals]
        /\ hist = NoHistory

CodecStep == \E v \in vehicles : Receive(v)

SpecCodec == InitCodec /\ [][CodecStep]_vars

\* the last step was process_heartbeat
Processed == last.op = "process_heartbeat"

\* C2: a single-bit heartbeat whose payload parity equals its parity field
\* is reported as success = true with the payload unchanged.
SingleBitParityMatchSucceeds ==
    (/\ Processed
     /\ ErrorType(last.hb) = SINGLE_BIT
     /\ Parity(last.hb.binary_message) = last.hb.parity)
    => (last.ok /\ last.out.binary_message = last.hb.binary_message)

\* the most frequent redundant copy is the payload itself
MajorityIsPayload(hb) ==
    /\ "redundant_messages" \in DOMAIN hb
    /\ Len(hb.redundant_messages) >= 3
    /\ MajorityMessages(hb.redundant_messages) = {hb.binary_message}

\* C3: a burst heartbeat with at least 3 redundant copies whose majority is
\* the current payload is reported as success = true with the payload
\* unchanged.
BurstMajorityMatchSucceeds ==
    (/\ Processed
     /\ ErrorType(last.hb) = BURST
     /\ MajorityIsPayload(last.hb))
    => (last.ok /\ last.out.binary_message = last.hb.binary_message)

\* double-bit, or burst with fewer than 3 redundant copies
Uncorrectable(hb) ==
    \/ ErrorType(hb) = DOUBLE_BIT
    \/ ErrorType(hb) = BURST /\ Len(RedundantMessages(hb)) < 3

\* C4: a heartbeat on which detect-and-correct fails (as it does for every
\* double-bit heartbeat and every burst heartbeat with fewer than 3 copies)
\* is dropped: process_heartbeat leaves the vehicle's speed, position and
\* synchronized flag and the payload as they were, and raises nothing.
FailedHeartbeatDropped ==
    Processed =>
        /\ Uncorrectable(last.hb) => ~last.ok
        /\ ~last.ok =>
            /\ ~last.raised
            /\ pc[last.v] # "crashed"
            /\ VehicleFields(last.v) = last.before
            /\ last.out.binary_message = last.hb.binary_message

\* a burst heartbeat with sync set and two redundant copies was dropped
FailedHeartbeatDroppedWitness ==
    /\ Processed
    /\ ~last.ok
    /\ ErrorType(last.hb) = BURST
    /\ "redundant_messages" \in DOMAIN last.hb
    /\ Len(last.hb.redundant_messages) = 2
    /\ last.hb.redundant_messages[1] # last.hb.binary_message
    /\ last.hb.sync

\* the bit positions at which two payloads of equal length differ
Differences(a, b) == {k \in 1 .. Len(a) : a[k] # b[k]}

\* the payload is some payload p with bit i flipped, and the parity field
\* is the popcount parity of p
OneBitFlipped(hb) ==
    \E i \in 0 .. (Len(hb.binary_message) - 1) :
        Parity(flip_bit(hb.binary_message, i)) = hb.parity

\* the leftmost position whose flip gives the payload the parity q
LeftmostFix(msg, q) ==
    CHOOSE i \in 0 .. (Len(msg) - 1) :
        /\ Parity(flip_bit(msg, i)) = q
        /\ \A j \in 0 .. (i - 1) : Parity(flip_bit(msg, j)) # q

\* C6: for a payload p with q = popcount(p) mod 2 and any position i,
\* single-bit correction of (p with bit i flipped, parity q) succeeds with a
\* payload that differs from the received one in exactly one bit, the
\* leftmost whose flip restores the parity, and has popcount parity q.
SingleBitCorrection ==
    (/\ Processed
     /\ ErrorType(last.hb) = SINGLE_BIT
     /\ OneBitFlipped(last.hb))
    => /\ last.ok
       /\ Len(last.out.binary_message) = Len(last.hb.binary_message)
       /\ Cardinality(Differences(last.out.binary_message,
                                  last.hb.binary_message)) = 1
       /\ last.out.binary_message =
            flip_bit(last.hb.binary_message,
                     LeftmostFix(last.hb.binary_message, last.hb.parity))
       /\ Parity(last.out.binary_message) = last.hb.parity

\* a payload of several bits, one of them flipped, was corrected
SingleBitCorrectionWitness ==
    /\ Processed
    /\ ErrorType(last.hb) = SINGLE_BIT
    /\ OneBitFlipped(last.hb)
    /\ Len(last.hb.binary_message) >= 2
    /\ last.ok

---------------------------------------------------------------------------
(* Properties of vpemer.py as run.                                         *)

\* C5: a double-bit heartbeat yields success = false, and raises the
\* double-bit counter of the receiving vehicle by exactly one; no other
\* vehicle's counter and no counter of another kind changes.
DoubleBitCounted ==
    (Processed /\ ErrorType(last.hb) = DOUBLE_BIT)
    => /\ ~last.ok
       /\ error_data =
            [last.error_data EXCEPT ![DOUBLE_BIT][last.v + 1] = @ + 1]

\* a double-bit heartbeat was processed by the second of two vehicles
DoubleBitCountedWitness ==
    /\ Processed
    /\ ErrorType(last.hb) = DOUBLE_BIT
    /\ Cardinality(vehicles) >= 2
    /\ last.v = 1
    /\ error_data[DOUBLE_BIT][2] = 1

\* an error-free heartbeat with sync set was processed by a vehicle without
\* leader
SyncProcessed ==
    /\ Processed
    /\ ErrorType(last.hb) = PyNone
    /\ last.hb.sync
    /\ last.leader = NoLeader

\* the vehicle that processed the last heartbeat has adopted its speed
SpeedAdopted ==
    LET s == Min2(BinToInt(last.hb.binary_message), MAX_SPEED)
    IN  /\ speed[last.v] = s
        /\ synchronized[last.v]
        /\ position[last.v] = last.before.position + s

LeaderSpeedAdopted ==
    (last.op = "assign_leader" /\ last.assigned)
    => speed[last.v] = speed[leader[last.v]]

---------------------------------------------------------------------------
(* vehiclePlatoon.py as run: run_simulation, the lead vehicle's sender     *)
(* thread and the vehicle threads.  The heartbeat queue is a queue.Queue,  *)
(* oldest entry first.                                                     *)

\* largest number of loop iterations the platoon vehicles start, all together
MaxPlatoonTicks == 9

\* LeadVehicle.__init__: self.speed = 50
LEAD_SPEED == 50

\* Vehicle.adjust_speed of vehiclePlatoon.py: the speed it leaves
platoon_adjust_speed(v, change) ==
    IF ~synchronized[v] THEN speed[v] + change ELSE speed[v]

\* Vehicle.process_heartbeat of vehiclePlatoon.py: the fields it leaves
platoon_process_heartbeat(v, heartbeat, change) ==
    IF heartbeat.sync
    THEN [speed |-> heartbeat.speed, synchronized |-> TRUE]
    ELSE [speed |-> platoon_adjust_speed(v, change),
          synchronized |-> synchronized[v]]

\* Vehicle.adjust_position: position += speed * (1 / 3600), in 1/3600 km
adjust_position(p, s) == p + s

\* one iteration of Vehicle.run in which get() returns a heartbeat:
\* process_heartbeat, handle_congestion_control, adjust_position
PlatoonReceive(v) ==
    /\ pc[v] = "top"
    /\ running[v]
    /\ ticks < MaxPlatoonTicks
    /\ heartbeat_queue # <<>>
    /\ Len(congestion_queue) < MaxFeedback
    /\ \E change \in ChangeSamples,
          coeffs \in [1 .. max_window_size[v] ->
                        [1 .. Len(data_packets[v]) -> CoeffSamples]],
          loss \in [1 .. max_window_size[v] -> BOOLEAN] :
         LET f == platoon_process_heartbeat(v, Head(heartbeat_queue), change)
             r == CongestionResult(cwnd[v], ssthresh[v], max_window_size[v],
                                   data_packets[v], coeffs, loss)
         IN  /\ speed' = [speed EXCEPT ![v] = f.speed]
             /\ synchronized' = [synchronized EXCEPT ![v] = f.synchronized]
             /\ cwnd' = [cwnd EXCEPT ![v] = r.cwnd]
             /\ ssthresh' = [ssthresh EXCEPT ![v] = r.ssthresh]
             /\ congestion_queue' = Append(congestion_queue, r.cwnd)
             /\ position' = [position EXCEPT
                                ![v] = adjust_position(@, f.speed)]
    /\ heartbeat_queue' = Tail(heartbeat_queue)
    /\ hist' = [hist EXCEPT !.received = @ + 1]
    /\ ticks' = ticks + 1
    /\ last' = [op |-> "platoon_receive", v |-> v]
    /\ UNCHANGED <<vehicles, running, max_window_size, data_packets,
                   obstacle_detected, direction, leader, error_data,
                   age_factor, metrics_len, pc, sender, main,
                   local>>

\* one iteration of Vehicle.run in which get() raises queue.Empty:
\* adjust_speed, adjust_position
PlatoonTimeout(v) ==
    /\ pc[v] = "top"
    /\ running[v]
    /\ ticks < MaxPlatoonTicks
    /\ heartbeat_queue = <<>>
    /\ \E change \in ChangeSamples :
         LET s == platoon_adjust_speed(v, change)
         IN  /\ speed' = [speed EXCEPT ![v] = s]
             /\ position' = [position EXCEPT ![v] = adjust_position(@, s)]
    /\ ticks' = ticks + 1
    /\ last' = [op |-> "platoon_timeout", v |-> v]
    /\ UNCHANGED <<vehicles, running, cwnd, ssthresh, max_window_size,
                   data_packets, synchronized, obstacle_detected, direction,
                   leader, error_data, age_factor, heartbeat_queue,
                   congestion_queue, metrics_len, pc, sender, main,
                   local, hist>>

\* Vehicle.run reads running as false and returns
PlatoonExit(v) ==
    /\ pc[v] = "top"
    /\ ~running[v]
    /\ pc' = [pc EXCEPT ![v] = "done"]
    /\ last' = [op |-> "platoon_exit", v |-> v]
    /\ UNCHANGED <<vehicles, running, cwnd, ssthresh, max_window_size,
                   data_packets, position, speed, synchronized,
                   obstacle_detected, direction, leader, error_data,
                   age_factor, heartbeat_queue, congestion_queue, metrics_len,
                   ticks, sender, main,
                   local, hist>>

\* one iteration of LeadVehicle.send_heartbeat
LeadSendWithin(budget) ==
    /\ sender.pc = "loop"
    /\ sender.running
    /\ Len(heartbeat_queue) < MaxQueue
    /\ sender.sent < budget
    /\ heartbeat_queue' =
           Append(heartbeat_queue, [sync |-> TRUE, speed |-> LEAD_SPEED])
    /\ sender' = [sender EXCEPT !.sent = @ + 1]
    /\ last' = [op |-> "lead_send"]
    /\ UNCHANGED <<vehicles, running, cwnd, ssthresh, max_window_size,
                   data_packets, position, speed, synchronized,
                   obstacle_detected, direction, leader, error_data,
                   age_factor, congestion_queue, metrics_len, pc, ticks, main,
                   local, hist>>

\* the same, for at most MaxSent heartbeats
LeadSend == LeadSendWithin(MaxSent)

\* LeadVehicle.send_heartbeat reads running as false and returns
LeadExit ==
    /\ sender.pc = "loop"
    /\ ~sender.running
    /\ sender' = [sender EXCEPT !.pc = "done"]
    /\ last' = [op |-> "lead_exit"]
    /\ UNCHANGED <<vehicles, running, cwnd, ssthresh, max_window_size,
                   data_packets, position, speed, synchronized,
                   obstacle_detected, direction, leader, error_data,
                   age_factor, heartbeat_queue, congestion_queue, metrics_len,
                   pc, ticks, main,
                   local, hist>>

\* run_simulation: LeadVehicle(heartbeat_queue) and lead_vehicle.start()
PlatoonStartLead ==
    /\ main.pc = "start_lead"
    /\ sender' = [running |-> TRUE, pc |-> "loop", sent |-> 0]
    /\ main' = [main EXCEPT !.pc = "create"]
    /\ last' = [op |-> "start_lead"]
    /\ UNCHANGED <<vehicles, running, cwnd, ssthresh, max_window_size,
                   data_packets, position, speed, synchronized,
                   obstacle_detected, direction, leader, error_data,
                   age_factor, heartbeat_queue, congestion_queue, metrics_len,
                   pc, ticks,
                   local, hist>>

\* run_simulation: the list of Vehicle objects is constructed
PlatoonCreateVehicles ==
    /\ main.pc = "create"
    /\ vehicles' = Ids
    /\ running' = [v \in Ids |-> TRUE]
    /\ cwnd' = [v \in Ids |-> 1]
    /\ ssthresh' = [v \in Ids |-> DEFAULT_MAX_WINDOW_SIZE \div 2]
    /\ max_window_size' = [v \in Ids |-> DEFAULT_MAX_WINDOW_SIZE]
    /\ data_packets' = [v \in Ids |-> <<>>]
    /\ position' = [v \in Ids |-> 0]
    /\ speed' \in [Ids -> SpeedSamples]
    /\ synchronized' = [v \in Ids |-> FALSE]
    /\ main' = [pc |-> "start", i |-> 0]
    /\ last' = [op |-> "create_vehicles"]
    /\ UNCHANGED <<obstacle_detected, direction, leader, error_data,
                   age_factor, heartbeat_queue, congestion_queue, metrics_len,
                   pc, ticks, sender,
                   local, hist>>

\* run_simulation: vehicle.start() for the next vehicle of the list
PlatoonStartVehicle ==
    /\ main.pc = "start"
    /\ pc' = [pc EXCEPT ![main.i] = "top"]
    /\ main' = IF main.i + 1 < NumVehicles
               THEN [main EXCEPT !.i = main.i + 1]
               ELSE [pc |-> "stop", i |-> 0]
    /\ last' = [op |-> "start_vehicle", v |-> main.i]
    /\ UNCHANGED <<vehicles, running, cwnd, ssthresh, max_window_size,
                   data_packets, position, speed, synchronized,
                   obstacle_detected, direction, leader, error_data,
                   age_factor, heartbeat_queue, congestion_queue, metrics_len,
                   ticks, sender,
                   local, hist>>

\* run_simulation, after the sleep: vehicle.stop() for the next vehicle
PlatoonStopVehicle ==
    /\ main.pc = "stop"
    /\ running' = [running EXCEPT ![main.i] = FALSE]
    /\ main' = IF main.i + 1 < NumVehicles
               THEN [main EXCEPT !.i = main.i + 1]
               ELSE [pc |-> "stop_lead", i |-> 0]
    /\ last' = [op |-> "stop", v |-> main.i]
    /\ UNCHANGED <<vehicles, cwnd, ssthresh, max_window_size, data_packets,
                   position, speed, synchronized, obstacle_detected, direction,
                   leader, error_data, age_factor, heartbeat_queue,
                   congestion_queue, metrics_len, pc, ticks, sender,
                   local, hist>>

\* LeadVehicle.stop: running = False
PlatoonStopLead ==
    /\ main.pc = "stop_lead"
    /\ sender' = [sender EXCEPT !.running = FALSE]
    /\ main' = [main EXCEPT !.pc = "join_lead"]
    /\ last' = [op |-> "stop_lead"]
    /\ UNCHANGED <<vehicles, running, cwnd, ssthresh, max_window_size,
                   data_packets, position, speed, synchronized,
                   obstacle_detected, direction, leader, error_data,
                   age_factor, heartbeat_queue, congestion_queue, metrics_len,
                   pc, ticks,
                   local, hist>>

\* LeadVehicle.stop: self.thread.join() returns once the sender has ended
PlatoonJoinLead ==
    /\ main.pc = "join_lead"
    /\ sender.pc = "done"
    /\ main' = [main EXCEPT !.pc = "done"]
    /\ last' = [op |-> "join_lead"]
    /\ UNCHANGED <<vehicles, running, cwnd, ssthresh, max_window_size,
                   data_packets, position, speed, synchronized,
                   obstacle_detected, direction, leader, error_data,
                   age_factor, heartbeat_queue, congestion_queue, metrics_len,
                   pc, ticks, sender,
                   local, hist>>

\* the state when run_simulation is called
InitPlatoon ==
    /\ vehicles = {}
    /\ running = [v \in Ids |-> FALSE]
    /\ cwnd = [v \in Ids |-> 1]
    /\ ssthresh = [v \in Ids |-> DEFAULT_MAX_WINDOW_SIZE \div 2]
    /\ max_window_size = [v \in Ids |-> DEFAULT_MAX_WINDOW_SIZE]
    /\ data_packets = [v \in Ids |-> <<>>]
    /\ position = [v \in Ids |-> 0]
    /\ speed = [v \in Ids |-> 0]
    /\ synchronized = [v \in Ids |-> FALSE]
    /\ obstacle_detected = [v \in Ids |-> FALSE]
    /\ direction = [v \in Ids |-> "straight"]
    /\ leader = [v \in Ids |-> NoLeader]
    /\ error_data = [k \in ErrorKinds |-> <<>>]
    /\ age_factor = 1
    /\ heartbeat_queue = <<>>
    /\ congestion_queue = <<>>
    /\ metrics_len = [v \in Ids |-> 0]
    /\ pc = [v \in Ids |-> "new"]
    /\ ticks = 0
    /\ sender = [running |-> FALSE, pc |-> "new", sent |-> 0]
    /\ main = [pc |-> "start_lead", i |-> 0]
    /\ last = [op |-> "init"]
    /\ local = [v \in Ids |-> NoLocals]
    /\ hist = NoHistory

NextPlatoon ==
    \/ PlatoonStartLead
    \/ PlatoonCreateVehicles
    \/ PlatoonStartVehicle
    \/ PlatoonStopVehicle
    \/ PlatoonStopLead
    \/ PlatoonJoinLead
    \/ LeadSend
    \/ LeadExit
    \/ \E v \in vehicles : PlatoonReceive(v)
    \/ \E v \in vehicles : PlatoonTimeout(v)
    \/ \E v \in vehicles : PlatoonExit(v)

SpecPlatoon == InitPlatoon /\ [][NextPlatoon]_vars

\* C8: in every reachable state every vehicle's speed satisfies
\* 0 <= speed <= MAX_SPEED, whatever heartbeats, timeouts, leader-following
\* updates, obstacle decelerations and intersection yields have occurred.
SpeedInRange ==
    \A v \in vehicles : 0 <= speed[v] /\ speed[v] <= MAX_SPEED

\* C9: every vehicle's position is non-decreasing over any execution and
\* never negative: no step of any vehicle lowers it.
PositionNonDecreasing ==
    [][\A v \in Ids : position'[v] >= position[v] /\ position'[v] >= 0]_vars

\* the step just taken ran adjust_speed on vehicle last.v: a timeout, or a
\* heartbeat that process_heartbeat handed to adjust_speed
RanAdjustSpeed ==
    \/ last.op = "adjust_speed"
    \/ /\ last.op = "process_heartbeat"
       /\ last.ok
       /\ ~last.raised
       /\ ~(last.out.sync /\ last.running)

\* C11: if B's leader is A and A's speed has changed since assign_leader
\* last ran for B, a later step of B does not change B's speed to follow A:
\* the leader's speed is copied to a follower only at B's own assignment.
StaleLeaderSpeed ==
    (/\ RanAdjustSpeed
     /\ last.leader # NoLeader
     /\ speed[last.leader] # hist.leader_speed[last.v])
    => speed[last.v] = last.before.speed

\* C12: whenever assign_leader stores a leader for vehicle V, at that moment
\* the leader is another vehicle of V's direction, strictly ahead of V, and
\* no vehicle of that direction is strictly ahead of the leader; no vehicle
\* is ever its own leader; and when no vehicle qualifies the leader is left
\* as it was.
LeaderChosenAhead ==
    /\ \A v \in vehicles : leader[v] # v
    /\ last.op = "assign_leader" =>
           LET b == last.v
               a == leader[b]
           IN  /\ a # b
               /\ direction[a] = direction[b]
               /\ position[a] > position[b]
               /\ \A u \in vehicles :
                      direction[u] = direction[b] => position[u] <= position[a]
    /\ (last.op = "turn_check" /\ pc[last.v] = "recv") =>
           leader[last.v] = last.leader

---------------------------------------------------------------------------
(* The heartbeat channel on its own: an AgedPriorityQueue as constructed,  *)
(* under any sequence of put, get and increase_age.  hist.enqueued is the  *)
(* same heap list with each entry followed by the number of its put and by *)
(* the priority and age_factor of that put; the heap operations read the   *)
(* first two components only, so it moves as the real list does.           *)

\* largest number of entries the channel holds
MaxHeld == 4
\* largest number of puts
MaxPuts == 5
\* largest age_factor reached
MaxAge == 3

\* the priorities handed to put: the lowest values of random.randint(1, 10)
ChannelPriorities == 1 .. 3

\* the heartbeat dicts handed to put: two that differ and so cannot be
\* ordered, each of which may be put again with equal content
ChannelHeartbeats ==
    {create_heartbeat_message(100, sync, PyNone) : sync \in BOOLEAN}

\* the (priority, heartbeat) tuples of a list of recorded entries
Stored(entries) == [i \in 1 .. Len(entries) |-> <<entries[i][1], entries[i][2]>>]

\* AgedPriorityQueue.put((priority, heartbeat))
ChannelPut ==
    /\ Len(heartbeat_queue) < MaxHeld
    /\ hist.puts < MaxPuts
    /\ \E priority \in ChannelPriorities, heartbeat \in ChannelHeartbeats :
         LET put == AgedPut(heartbeat_queue, priority, heartbeat, age_factor)
             rec == heappush(hist.enqueued,
                             <<Max2(1, priority - age_factor), heartbeat,
                               hist.puts + 1, priority, age_factor>>)
         IN  /\ heartbeat_queue' = put.heap
             /\ hist' = [hist EXCEPT !.puts = @ + 1, !.enqueued = rec.heap]
             /\ last' = [op |-> "channel_put", raised |-> put.error,
                         empty |-> FALSE]
    /\ UNCHANGED <<vehicles, running, cwnd, ssthresh, max_window_size,
                   data_packets, position, speed, synchronized,
                   obstacle_detected, direction, leader, error_data,
                   age_factor, congestion_queue, metrics_len, pc, ticks,
                   sender, main, local>>

\* PriorityQueue.get(timeout=1) with an entry queued
ChannelGet ==
    /\ heartbeat_queue # <<>>
    /\ LET got == heappop(heartbeat_queue)
           rec == heappop(hist.enqueued)
       IN  /\ heartbeat_queue' = got.heap
           /\ hist' = [hist EXCEPT !.enqueued = rec.heap]
           /\ last' = [op |-> "channel_get", raised |-> got.error,
                       empty |-> FALSE, item |-> got.item, rec |-> rec.item,
                       before |-> hist.enqueued]
    /\ UNCHANGED <<vehicles, running, cwnd, ssthresh, max_window_size,
                   data_packets, position, speed, synchronized,
                   obstacle_detected, direction, leader, error_data,
                   age_factor, congestion_queue, metrics_len, pc, ticks,
                   sender, main, local>>

\* PriorityQueue.get(timeout=1) with nothing queued: queue.Empty
ChannelGetEmpty ==
    /\ heartbeat_queue = <<>>
    /\ last' = [op |-> "channel_get", raised |-> FALSE, empty |-> TRUE,
                before |-> hist.enqueued, age |-> age_factor]
    /\ UNCHANGED <<vehicles, running, cwnd, ssthresh, max_window_size,
                   data_packets, position, speed, synchronized,
                   obstacle_detected, direction, leader, error_data,
                   age_factor, heartbeat_queue, congestion_queue, metrics_len,
                   pc, ticks, sender, main, local, hist>>

\* AgedPriorityQueue.increase_age
increase_age ==
    /\ age_factor < MaxAge
    /\ age_factor' = age_factor + 1
    /\ last' = [op |-> "increase_age", raised |-> FALSE, empty |-> FALSE,
                before |-> heartbeat_queue, age |-> age_factor]
    /\ UNCHANGED <<vehicles, running, cwnd, ssthresh, max_window_size,
                   data_packets, position, speed, synchronized,
                   obstacle_detected, direction, leader, error_data,
                   heartbeat_queue, congestion_queue, metrics_len, pc, ticks,
                   sender, main, local, hist>>

\* AgedPriorityQueue.__init__
InitChannel ==
    /\ vehicles = {}
    /\ running = [v \in Ids |-> FALSE]
    /\ cwnd = [v \in Ids |-> 1]
    /\ ssthresh = [v \in Ids |-> DEFAULT_MAX_WINDOW_SIZE \div 2]
    /\ max_window_size = [v \in Ids |-> DEFAULT_MAX_WINDOW_SIZE]
    /\ data_packets = [v \in Ids |-> <<>>]
    /\ position = [v \in Ids |-> 0]
    /\ speed = [v \in Ids |-> 0]
    /\ synchronized = [v \in Ids |-> FALSE]
    /\ obstacle_detected = [v \in Ids |-> FALSE]
    /\ direction = [v \in Ids |-> "straight"]
    /\ leader = [v \in Ids |-> NoLeader]
    /\ error_data = [k \in ErrorKinds |-> <<>>]
    /\ age_factor = 1
    /\ heartbeat_queue = <<>>
    /\ congestion_queue = <<>>
    /\ metrics_len = [v \in Ids |-> 0]
    /\ pc = [v \in Ids |-> "new"]
    /\ ticks = 0
    /\ sender = [running |-> FALSE, pc |-> "new", sent |-> 0]
    /\ main = [pc |-> "done", i |-> 0]
    /\ local = [v \in Ids |-> NoLocals]
    /\ last = [op |-> "init", raised |-> FALSE, empty |-> FALSE]
    /\ hist = NoHistory

NextChannel ==
    \/ ChannelPut
    \/ ChannelGet
    \/ ChannelGetEmpty
    \/ increase_age

SpecChannel == InitChannel /\ [][NextChannel]_vars

\* the entries queued before the last get
QueuedBefore == {last.before[i] : i \in 1 .. Len(last.before)}

\* C13: each successful get returns an entry whose adjusted priority is
\* minimal among the queued entries and, among those of equal adjusted
\* priority, the one enqueued first; a get on an empty channel ends with the
\* empty outcome and changes nothing.
ChannelOrder ==
    /\ (last.op = "channel_get" /\ ~last.empty /\ ~last.raised) =>
           \A e \in QueuedBefore :
               /\ last.rec[1] <= e[1]
               /\ e[1] = last.rec[1] => last.rec[3] <= e[3]
    /\ (last.op = "channel_get" /\ last.empty) =>
           /\ heartbeat_queue = <<>>
           /\ hist.enqueued = last.before
           /\ age_factor = last.age

\* C14: every entry held has stored priority max(1, p - a) for the priority
\* p and the age_factor a of its put, so stored priorities are >= 1;
\* increase_age raises age_factor by exactly 1 and changes neither the
\* stored priorities nor the order of the entries queued.
StoredPriority ==
    /\ heartbeat_queue = Stored(hist.enqueued)
    /\ \A i \in 1 .. Len(hist.enqueued) :
           LET e == hist.enqueued[i]
           IN  /\ e[1] = Max2(1, e[4] - e[5])
               /\ heartbeat_queue[i][1] >= 1
    /\ last.op = "increase_age" =>
           /\ age_factor = last.age + 1
           /\ heartbeat_queue = last.before

\* increase_age has run with two entries queued, one of them stored at the
\* floor because its priority was not above the age_factor of its put
StoredPriorityWitness ==
    /\ last.op = "increase_age"
    /\ Len(heartbeat_queue) >= 2
    /\ \E i \in 1 .. Len(hist.enqueued) :
           hist.enqueued[i][4] - hist.enqueued[i][5] < 1
    /\ \E i \in 1 .. Len(hist.enqueued) :
           hist.enqueued[i][4] - hist.enqueued[i][5] > 1

\* C15: with several vehicle threads receiving from the same heartbeat
\* queue, every heartbeat put by the sender is dequeued and processed by at
\* most one vehicle, at most once: the heartbeats handed to vehicles and the
\* heartbeats still queued never outnumber the heartbeats put.
HeartbeatConsumedOnce ==
    hist.received + Len(heartbeat_queue) <= sender.sent

\* a vehicle has been handed the heartbeat while the other vehicle was
\* waiting in get() on the same queue
HeartbeatConsumedOnceWitness ==
    /\ last.op = "process_heartbeat"
    /\ hist.received = 1
    /\ sender.sent = 1
    /\ \E u \in vehicles : u # last.v /\ pc[u] = "recv"

---------------------------------------------------------------------------
(* vpemer.py: the vehicle threads with each update of a speed in two       *)
(* steps, the read of the old value and the write of the new one, between  *)
(* which the other threads run.  The queue stays empty: every get() times  *)
(* out.                                                                    *)

\* largest number of loop iterations without obstacle the vehicles start,
\* all together; the iterations that handle an obstacle are not counted
MaxRaceTicks == 2

\* the vehicle of a set that comes first in the list vehicles
FirstOf(candidates) == CHOOSE u \in candidates : \A w \in candidates : u <= w

\* adjust_speed after the timeout, up to the read of the speed it starts
\* from: self.leader.speed, or self.speed before random.uniform is called
\* (lines 111-115)
AdjustRead(v) ==
    /\ pc[v] = "recv"
    /\ heartbeat_queue = <<>>
    /\ local' = [local EXCEPT ![v].speed =
                    IF leader[v] # NoLeader THEN speed[leader[v]] ELSE speed[v]]
    /\ pc' = [pc EXCEPT ![v] = "adjust_write"]
    /\ last' = [op |-> "adjust_read", v |-> v]
    /\ UNCHANGED <<vehicles, running, cwnd, ssthresh, max_window_size,
                   data_packets, position, speed, synchronized,
                   obstacle_detected, direction, leader, error_data,
                   age_factor, heartbeat_queue, congestion_queue, metrics_len,
                   ticks, sender, main, hist>>

\* the rest of adjust_speed: the new speed is stored and added to position
\* (lines 112-117)
AdjustWrite(v) ==
    /\ pc[v] = "adjust_write"
    /\ \E change \in ChangeSamples :
         LET s == IF leader[v] # NoLeader
                  THEN local[v].speed
                  ELSE Max2(10, Min2(local[v].speed + change, MAX_SPEED))
         IN  /\ speed' = [speed EXCEPT ![v] = s]
             /\ position' = [position EXCEPT ![v] = @ + s]
    /\ pc' = [pc EXCEPT ![v] = "intersect"]
    /\ last' = [op |-> "adjust_write", v |-> v, read |-> local[v].speed,
                found |-> speed[v], leader |-> leader[v]]
    /\ UNCHANGED <<vehicles, running, cwnd, ssthresh, max_window_size,
                   data_packets, synchronized, obstacle_detected, direction,
                   leader, error_data, age_factor, heartbeat_queue,
                   congestion_queue, metrics_len, ticks, sender, main, local,
                   hist>>

\* handle_obstacle with speed > 0, up to the loop over the vehicles: the
\* vehicle's own speed is lowered (lines 183-185)
ObstacleStart(v) ==
    /\ pc[v] = "top"
    /\ running[v]
    /\ obstacle_detected[v]
    /\ speed[v] > 0
    /\ speed' = [speed EXCEPT ![v] = Decelerated(@)]
    /\ local' = [local EXCEPT ![v].candidates = vehicles \ {v}]
    /\ hist' = [hist EXCEPT !.flagged[v] = {}]
    /\ pc' = [pc EXCEPT ![v] = "notify"]
    /\ last' = [op |-> "obstacle_start", v |-> v]
    /\ UNCHANGED <<vehicles, running, cwnd, ssthresh, max_window_size,
                   data_packets, position, synchronized, obstacle_detected,
                   direction, leader, error_data, age_factor, heartbeat_queue,
                   congestion_queue, metrics_len, ticks, sender, main>>

\* the loop of handle_obstacle reaches the next vehicle: one already flagged
\* is passed over; another is flagged, and its speed is read (lines 186-189)
NotifyRead(v) ==
    /\ pc[v] = "notify"
    /\ local[v].candidates # {}
    /\ LET u == FirstOf(local[v].candidates)
       IN  IF obstacle_detected[u]
           THEN /\ local' = [local EXCEPT ![v].candidates = @ \ {u}]
                /\ UNCHANGED <<obstacle_detected, pc>>
           ELSE /\ obstacle_detected' = [obstacle_detected EXCEPT ![u] = TRUE]
                /\ local' = [local EXCEPT ![v].speed = speed[u]]
                /\ pc' = [pc EXCEPT ![v] = "notify_write"]
    /\ hist' = [hist EXCEPT !.flagged[v] =
                   @ \cup {FirstOf(local[v].candidates)}]
    /\ last' = [op |-> "notify_read", v |-> v,
                u |-> FirstOf(local[v].candidates)]
    /\ UNCHANGED <<vehicles, running, cwnd, ssthresh, max_window_size,
                   data_packets, position, speed, synchronized, direction,
                   leader, error_data, age_factor, heartbeat_queue,
                   congestion_queue, metrics_len, ticks, sender, main>>

\* vehicle.speed = max(0, vehicle.speed - 10): the write (line 189)
NotifyWrite(v) ==
    /\ pc[v] = "notify_write"
    /\ LET u == FirstOf(local[v].candidates)
       IN  /\ speed' = [speed EXCEPT ![u] = Decelerated(local[v].speed)]
           /\ last' = [op |-> "notify_write", v |-> v, u |-> u,
                       read |-> local[v].speed, found |-> speed[u]]
           /\ local' = [local EXCEPT ![v].candidates = @ \ {u}]
    /\ pc' = [pc EXCEPT ![v] = "notify"]
    /\ UNCHANGED <<vehicles, running, cwnd, ssthresh, max_window_size,
                   data_packets, position, synchronized, obstacle_detected,
                   direction, leader, error_data, age_factor, heartbeat_queue,
                   congestion_queue, metrics_len, ticks, sender, main, hist>>

\* the loop of handle_obstacle is over; `continue`
NotifyDone(v) ==
    /\ pc[v] = "notify"
    /\ local[v].candidates = {}
    /\ pc' = [pc EXCEPT ![v] = "top"]
    /\ last' = [op |-> "notify_done", v |-> v]
    /\ UNCHANGED <<vehicles, running, cwnd, ssthresh, max_window_size,
                   data_packets, position, speed, synchronized,
                   obstacle_detected, direction, leader, error_data,
                   age_factor, heartbeat_queue, congestion_queue, metrics_len,
                   ticks, sender, main, local, hist>>

\* handle_obstacle with speed 0: the flag is cleared (lines 191-192)
ObstacleClear(v) ==
    /\ pc[v] = "top"
    /\ running[v]
    /\ obstacle_detected[v]
    /\ speed[v] <= 0
    /\ obstacle_detected' = [obstacle_detected EXCEPT ![v] = FALSE]
    /\ last' = [op |-> "obstacle_clear", v |-> v]
    /\ UNCHANGED <<vehicles, running, cwnd, ssthresh, max_window_size,
                   data_packets, position, speed, synchronized, direction,
                   leader, error_data, age_factor, heartbeat_queue,
                   congestion_queue, metrics_len, pc, ticks, sender, main,
                   local, hist>>

\* the vehicles as the driver has constructed and started them
InitRace ==
    /\ vehicles = Ids
    /\ running = [v \in Ids |-> TRUE]
    /\ cwnd = [v \in Ids |-> 1]
    /\ ssthresh = [v \in Ids |-> DEFAULT_MAX_WINDOW_SIZE \div 2]
    /\ max_window_size = [v \in Ids |-> DEFAULT_MAX_WINDOW_SIZE]
    /\ data_packets = [v \in Ids |-> <<>>]
    /\ position = [v \in Ids |-> 0]
    /\ speed \in [Ids -> DriverSpeedSamples]
    /\ synchronized = [v \in Ids |-> FALSE]
    /\ obstacle_detected = [v \in Ids |-> FALSE]
    /\ direction \in [Ids -> Directions]
    /\ leader = [v \in Ids |-> NoLeader]
    /\ error_data = [k \in ErrorKinds |-> [i \in 1 .. NumVehicles |-> 0]]
    /\ age_factor = 1
    /\ heartbeat_queue = <<>>
    /\ congestion_queue = <<>>
    /\ metrics_len = [v \in Ids |-> 0]
    /\ pc = [v \in Ids |-> "top"]
    /\ ticks = 0
    /\ sender = [running |-> FALSE, pc |-> "new", sent |-> 0]
    /\ main = [pc |-> "sleep", i |-> 0]
    /\ local = [v \in Ids |-> NoLocals]
    /\ last = [op |-> "init"]
    /\ hist = NoHistory

NextRace ==
    \/ \E v \in vehicles : TurnCheckWithin(v, MaxRaceTicks)
    \/ \E v \in vehicles : assign_leader(v)
    \/ \E v \in vehicles : AdjustRead(v)
    \/ \E v \in vehicles : AdjustWrite(v)
    \/ \E v \in vehicles : EndTick(v)
    \/ \E v \in vehicles : ObstacleStart(v)
    \/ \E v \in vehicles : NotifyRead(v)
    \/ \E v \in vehicles : NotifyWrite(v)
    \/ \E v \in vehicles : NotifyDone(v)
    \/ \E v \in vehicles : ObstacleClear(v)

SpecRace == InitRace /\ [][NextRace]_vars

---------------------------------------------------------------------------
(* The same threads some time into the run, under a scheduler that lets    *)
(* every thread run again and again.                                       *)

\* largest number of loop iterations without obstacle the vehicles start
\* from then on, all together
MaxFairTicks == 1

\* the vehicles constructed and started, each either at its first loop
\* iteration or after one iteration that timed out in get(), moved the
\* vehicle by its speed and logged one entry
InitRunning ==
    /\ vehicles = Ids
    /\ running = [v \in Ids |-> TRUE]
    /\ cwnd = [v \in Ids |-> 1]
    /\ ssthresh = [v \in Ids |-> DEFAULT_MAX_WINDOW_SIZE \div 2]
    /\ max_window_size = [v \in Ids |-> DEFAULT_MAX_WINDOW_SIZE]
    /\ data_packets = [v \in Ids |-> <<>>]
    /\ speed \in [Ids -> DriverSpeedSamples]
    /\ \E moved \in SUBSET Ids :
         /\ position = [v \in Ids |-> IF v \in moved THEN speed[v] ELSE 0]
         /\ metrics_len = [v \in Ids |-> IF v \in moved THEN 1 ELSE 0]
    /\ synchronized = [v \in Ids |-> FALSE]
    /\ obstacle_detected = [v \in Ids |-> FALSE]
    /\ direction \in [Ids -> Directions]
    /\ leader = [v \in Ids |-> NoLeader]
    /\ error_data = [k \in ErrorKinds |-> [i \in 1 .. NumVehicles |-> 0]]
    /\ age_factor = 1
    /\ heartbeat_queue = <<>>
    /\ congestion_queue = <<>>
    /\ pc = [v \in Ids |-> "top"]
    /\ ticks = 0
    /\ sender = [running |-> FALSE, pc |-> "new", sent |-> 0]
    /\ main = [pc |-> "sleep", i |-> 0]
    /\ local = [v \in Ids |-> NoLocals]
    /\ last = [op |-> "init"]
    /\ hist = NoHistory

\* the steps of the thread of vehicle v
ObstacleThread(v) ==
    \/ TurnCheckWithin(v, MaxFairTicks)
    \/ assign_leader(v)
    \/ AdjustRead(v)
    \/ AdjustWrite(v)
    \/ EndTick(v)
    \/ ObstacleStart(v)
    \/ NotifyRead(v)
    \/ NotifyWrite(v)
    \/ NotifyDone(v)
    \/ ObstacleClear(v)

NextObstacle ==
    \/ \E v \in vehicles : TurnCheckWithin(v, MaxFairTicks)
    \/ \E v \in vehicles : assign_leader(v)
    \/ \E v \in vehicles : AdjustRead(v)
    \/ \E v \in vehicles : AdjustWrite(v)
    \/ \E v \in vehicles : EndTick(v)
    \/ \E v \in vehicles : ObstacleStart(v)
    \/ \E v \in vehicles : NotifyRead(v)
    \/ \E v \in vehicles : NotifyWrite(v)
    \/ \E v \in vehicles : NotifyDone(v)
    \/ \E v \in vehicles : ObstacleClear(v)

\* nothing in the loop blocks (get() returns after its timeout, sleep(1)
\* ends), so a thread that can take a step takes one
SpecObstacle ==
    /\ InitRunning
    /\ [][NextObstacle]_vars
    /\ \A v \in Ids : WF_vars(ObstacleThread(v))

\* C16: the broadcast's update of another vehicle's speed is mutually
\* exclusive with that vehicle's own update: nobody writes a vehicle's speed
\* between the read and the write of an update of it, by the vehicle itself
\* or by a broadcaster, so every write stores a value computed from the
\* speed it replaces.
NoTornSpeedUpdate ==
    /\ (last.op = "adjust_write" /\ last.leader = NoLeader) =>
           last.found = last.read
    /\ last.op = "notify_write" => last.found = last.read

StoppedThreadEnds ==
    /\ \A v \in Ids :
           (pc[v] # "new" /\ ~running[v]) ~> (pc[v] \in {"done", "crashed"})
    /\ (sender.pc # "new" /\ ~sender.running) ~>
           (sender.pc \in {"done", "crashed"})

\* a vehicle that was stopped while a heartbeat was queued has left its loop
StoppedThreadEndsWitness ==
    /\ last.op = "exit"
    /\ pc[last.v] = "done"
    /\ ~running[last.v]
    /\ heartbeat_queue # <<>>
    /\ sender.pc = "done"


\* C20: when the driver has finished its shutdown and returns, every
\* vehicle thread and the sender thread have left their loops: none is
\* still running.
ShutdownAfterThreads ==
    main.pc = "done" =>
        /\ \A v \in vehicles : pc[v] \in {"done", "crashed"}
        /\ sender.pc \in {"done", "crashed"}


\* C21: a tick of the controller without loss takes cwnd to
\* min(2 * cwnd, max_window_size) when cwnd < ssthresh held at its start and
\* to min(cwnd + 1, max_window_size) otherwise; from cwnd = 1, ssthresh = 2,
\* max_window_size = 5 the feedback of three ticks without loss is 2, 3, 4,
\* and a loss in the third one leaves ssthresh = 2 and cwnd = 1.
LossFreeGrowth ==
    /\ (last.op = "handle_congestion_control" /\ ~last.lost) =>
           /\ ssthresh[last.v] = last.ssthresh
           /\ cwnd[last.v] =
                 (IF last.cwnd < last.ssthresh
                  THEN Min2(2 * last.cwnd, max_window_size[last.v])
                  ELSE Min2(last.cwnd + 1, max_window_size[last.v]))
    /\ (/\ max_window_size[0] = 5
        /\ Len(congestion_queue) = 3
        /\ congestion_queue[1] = 2
        /\ congestion_queue[2] = 3) =>
           /\ last.cwnd = 3
           /\ last.ssthresh = 2
           /\ IF last.lost
              THEN cwnd[0] = 1 /\ ssthresh[0] = 2 /\ congestion_queue[3] = 1
              ELSE cwnd[0] = 4 /\ ssthresh[0] = 2 /\ congestion_queue[3] = 4

\* two ticks without loss, then a loss in the third
LossFreeGrowthWitness ==
    /\ max_window_size[0] = 5
    /\ congestion_queue = <<2, 3, 1>>
    /\ last.op = "handle_congestion_control"
    /\ last.lost
    /\ ssthresh[0] = 2
    /\ cwnd[0] = 1


\* C23: a tick of the controller in which a packet is lost stops at the
\* first packet whose loss decision is true, with ssthresh = max(c div 2, 1)
\* for c the window after the increase and the cap, and cwnd = 1; a tick
\* without loss examines every packet and leaves ssthresh as it was; and
\* every tick appends one value to the feedback queue, the cwnd it leaves.
LossReaction ==
    last.op = "handle_congestion_control" =>
        LET v == last.v
            c == IF last.cwnd < last.ssthresh
                 THEN Min2(2 * last.cwnd, max_window_size[v])
                 ELSE Min2(last.cwnd + 1, max_window_size[v])
            decided == {j \in 1 .. last.npackets : last.loss[j]}
        IN  /\ last.lost <=> decided # {}
            /\ last.lost =>
                  /\ ssthresh[v] = (IF c \div 2 >= 1 THEN c \div 2 ELSE 1)
                  /\ cwnd[v] = 1
                  /\ last.examined \in decided
                  /\ \A j \in decided : last.examined <= j
            /\ ~last.lost =>
                  /\ ssthresh[v] = last.ssthresh
                  /\ cwnd[v] = c
                  /\ last.examined = last.npackets
            /\ Len(congestion_queue) = last.fed + 1
            /\ congestion_queue[Len(congestion_queue)] = cwnd[v]

\* a tick that generated several packets and lost one that was not the last
LossReactionWitness ==
    /\ last.op = "handle_congestion_control"
    /\ last.lost
    /\ last.npackets >= 3
    /\ last.examined < last.npackets
    /\ last.examined >= 2


---------------------------------------------------------------------------
(* vehiclePlatoon.py: the lead vehicle and the vehicle threads during the  *)
(* driver's sleep, long enough for a window to reach max_window_size.      *)

\* largest number of heartbeats the lead vehicle puts
MaxLeadSent == 5

\* run_simulation at time.sleep(5): the lead vehicle and every vehicle
\* constructed and started
InitWindow ==
    /\ vehicles = Ids
    /\ running = [v \in Ids |-> TRUE]
    /\ cwnd = [v \in Ids |-> 1]
    /\ ssthresh = [v \in Ids |-> DEFAULT_MAX_WINDOW_SIZE \div 2]
    /\ max_window_size = [v \in Ids |-> DEFAULT_MAX_WINDOW_SIZE]
    /\ data_packets = [v \in Ids |-> <<>>]
    /\ position = [v \in Ids |-> 0]
    /\ speed \in [Ids -> SpeedSamples]
    /\ synchronized = [v \in Ids |-> FALSE]
    /\ obstacle_detected = [v \in Ids |-> FALSE]
    /\ direction = [v \in Ids |-> "straight"]
    /\ leader = [v \in Ids |-> NoLeader]
    /\ error_data = [k \in ErrorKinds |-> <<>>]
    /\ age_factor = 1
    /\ heartbeat_queue = <<>>
    /\ congestion_queue = <<>>
    /\ metrics_len = [v \in Ids |-> 0]
    /\ pc = [v \in Ids |-> "top"]
    /\ ticks = 0
    /\ sender = [running |-> TRUE, pc |-> "loop", sent |-> 0]
    /\ main = [pc |-> "stop", i |-> 0]
    /\ last = [op |-> "init"]
    /\ local = [v \in Ids |-> NoLocals]
    /\ hist = NoHistory

NextWindow ==
    \/ LeadSendWithin(MaxLeadSent)
    \/ \E v \in vehicles : PlatoonReceive(v)
    \/ \E v \in vehicles : PlatoonTimeout(v)

SpecWindow == InitWindow /\ [][NextWindow]_vars

\* C27: in vehiclePlatoon.py data_packets is empty in every state, no step
\* changes ssthresh from its initial value or lowers cwnd, and a cwnd equal
\* to max_window_size stays there.
WindowNeverShrinks ==
    [][\A v \in Ids :
          /\ data_packets[v] = <<>>
          /\ data_packets'[v] = <<>>
          /\ ssthresh'[v] = ssthresh[v]
          /\ ssthresh[v] = DEFAULT_MAX_WINDOW_SIZE \div 2
          /\ cwnd'[v] >= cwnd[v]
          /\ cwnd[v] = max_window_size[v] => cwnd'[v] = max_window_size[v]]_vars

\* one vehicle has processed five heartbeats: its window reached
\* max_window_size with the fourth and stayed there with the fifth
WindowNeverShrinksWitness ==
    /\ last.op = "platoon_receive"
    /\ congestion_queue = <<2, 3, 4, 5, 5>>
    /\ cwnd[last.v] = max_window_size[last.v]
    /\ ssthresh[last.v] = DEFAULT_MAX_WINDOW_SIZE \div 2


\* C22: a vehicle's synchronized changes only from false to true, and only
\* in a process_heartbeat of that vehicle whose heartbeat was accepted and
\* has its sync flag set; every other step leaves it as it is.
SynchronizedOnlySet ==
    [][\A v \in Ids :
          synchronized'[v] # synchronized[v] =>
              /\ ~synchronized[v]
              /\ synchronized'[v]
              /\ last'.op = "process_heartbeat"
              /\ last'.v = v
              /\ last'.ok
              /\ ~last'.raised
              /\ last'.hb.sync]_vars

\* a vehicle that was not synchronized has accepted a sync heartbeat
SynchronizedOnlySetWitness ==
    /\ last.op = "process_heartbeat"
    /\ last.ok
    /\ last.hb.sync
    /\ ~last.before.synchronized
    /\ synchronized[last.v]


\* the operations of a vehicle's loop iteration other than handle_obstacle
NormalTickOps ==
    {"turn_check", "assign_leader", "get", "process_heartbeat",
     "adjust_speed", "end_tick"}

\* C24: a loop iteration of a vehicle that starts with obstacle_detected
\* true is handle_obstacle and nothing else: no heartbeat is taken from the
\* queue, no other operation of the loop runs for the vehicle, its position,
\* synchronized, leader and direction stay as they are, no metrics entry is
\* logged, and the vehicle is back at the top of its loop.
ObstacleIterationOnly ==
    [][\A v \in Ids :
          (pc[v] = "top" /\ running[v] /\ obstacle_detected[v]) =>
              /\ position'[v] = position[v]
              /\ synchronized'[v] = synchronized[v]
              /\ leader'[v] = leader[v]
              /\ direction'[v] = direction[v]
              /\ metrics_len'[v] = metrics_len[v]
              /\ pc'[v] = "top"
              /\ last'.op \in NormalTickOps => last'.v # v
              /\ (last'.op = "handle_obstacle" /\ last'.v = v) =>
                     /\ heartbeat_queue' = heartbeat_queue
                     /\ hist'.received = hist.received]_vars

\* handle_obstacle has run for a vehicle while a heartbeat was waiting in
\* the queue, and has left it there
ObstacleIterationOnlyWitness ==
    /\ last.op = "handle_obstacle"
    /\ heartbeat_queue # <<>>
    /\ pc[last.v] = "top"
    /\ metrics_len[last.v] > 0


\* C25: a vehicle's obstacle_detected goes from true to false only in that
\* vehicle's own handle_obstacle, at the top of its loop and with its own
\* speed <= 0; no other vehicle and no other operation clears it, and a
\* vehicle starts a normal loop iteration only with the flag false.
FlagClearedOnlyAtRest ==
    [][\A v \in Ids :
          /\ (obstacle_detected[v] /\ ~obstacle_detected'[v]) =>
                 /\ last'.op = "obstacle_clear"
                 /\ last'.v = v
                 /\ pc[v] = "top"
                 /\ speed[v] <= 0
          /\ (last'.op = "turn_check" /\ last'.v = v /\ pc[v] = "top") =>
                 ~obstacle_detected[v]]_vars

\* a vehicle flagged by another vehicle's broadcast has come to rest and
\* cleared its flag
FlagClearedOnlyAtRestWitness ==
    /\ last.op = "obstacle_clear"
    /\ ~obstacle_detected[last.v]
    /\ speed[last.v] = 0
    /\ \E u \in vehicles \ {last.v} : last.v \in hist.flagged[u]


\* C26: a heartbeat built by create_heartbeat_message is accepted by
\* detect_and_correct_errors exactly when its error_type is None; one
\* labelled single-bit, double-bit or burst is rejected and leaves the
\* vehicle's speed, position and synchronized as they were.
OnlyUnlabelledAccepted ==
    last.op = "process_heartbeat" =>
        /\ ~last.raised
        /\ last.ok <=> last.hb.error_type = PyNone
        /\ last.hb.error_type # PyNone =>
               /\ speed[last.v] = last.before.speed
               /\ position[last.v] = last.before.position
               /\ synchronized[last.v] = last.before.synchronized

\* a sync heartbeat labelled single-bit was handed to a vehicle and rejected
OnlyUnlabelledAcceptedWitness ==
    /\ last.op = "process_heartbeat"
    /\ last.hb.error_type = SINGLE_BIT
    /\ last.hb.sync
    /\ ~last.ok
    /\ ~synchronized[last.v]


====
